---- MODULE Spec2Model ----
(***************************************************************************)
(* Model of setup.py of cfac: the setuptools command Make, which drives    *)
(* autoconf, ./configure, make clean and make / make check / make install  *)
(* as external processes.                                                  *)
(*                                                                         *)
(* Python strings are sequences of one-character strings, so that          *)
(* str.split, str.format and + are modelled by what they compute.          *)
(***************************************************************************)
EXTENDS Naturals, Integers, Sequences, FiniteSets, TLC

\* Largest exit status the environment gives a child process.
MaxExit == 2

ExitCodes == 0 .. MaxExit

\* Python's None for agree_cpc (initialize_options); not a character string.
None == <<"None">>

yes == <<"y","e","s">>
no == <<"n","o">>
Yes == <<"Y","e","s">>
empty == <<>>

\* Values the command line can give --agree-cpc, and None when it is absent.
OptionValues == {None, yes, no, empty, Yes}

AutoconfCommand == <<"a","u","t","o","c","o","n","f"," ","-","o"," ","c","o","n","f","i","g","u","r","e"," ","a","c","-","t","o","o","l","s","/","c","o","n","f","i","g","u","r","e",".","a","c">>
ConfigureCommand == <<".","/","c","o","n","f","i","g","u","r","e"," ","-","-","p","r","e","f","i","x","=","$","P","W","D","/","b","i","n"," ","-","-","w","i","t","h","-","c","p","c","-","m","o","d","u","l","e","s">>

\* The scripted branch without --with-cpc-modules.
ScriptedConfigureCommand_short == <<".","/","c","o","n","f","i","g","u","r","e"," ","-","-","p","r","e","f","i","x","=","$","P","W","D","/","b","i","n">>

\* configure: the literal of the else branch, written out a second time.
ScriptedConfigureCommand == <<".","/","c","o","n","f","i","g","u","r","e"," ","-","-","p","r","e","f","i","x","=","$","P","W","D","/","b","i","n"," ","-","-","w","i","t","h","-","c","p","c","-","m","o","d","u","l","e","s">>

CleanCommand == <<"m","a","k","e"," ","c","l","e","a","n">>
MakeCommand == <<"m","a","k","e">>
MakeCheckCommand == <<"m","a","k","e"," ","c","h","e","c","k">>
MakeInstallCommand == <<"m","a","k","e"," ","i","n","s","t","a","l","l">>

\* make install before make check.
MakeCommands_swapped == <<MakeCommand, MakeInstallCommand, MakeCheckCommand>>

\* The list Make.make hands to _call.
MakeCommands == <<MakeCommand, MakeCheckCommand, MakeInstallCommand>>

\* The two writes of the scripted configure: b"yes\n" and b"\n".
ScriptedAnswers == << <<"y","e","s","\n">>, <<"\n">> >>

FinalizePrefix == <<"-","-","a","g","r","e","e","-","c","p","c"," ","s","h","o","u","l","d"," ","b","e"," ","y","e","s","."," ","G","i","v","e","n",":"," ">>
CallPrefix == <<"I","n","s","t","a","l","l"," ","f","a","i","l","e","d"," ","a","t"," ">>
BrokenPipe == <<"B","r","o","k","e","n"," ","p","i","p","e">>

(***************************************************************************)
(* Pure functions                                                          *)
(***************************************************************************)
Whitespace == {" ", "\t", "\n", "\r"}

RECURSIVE SplitFrom(_, _, _)
\* str.split() with no separator: the maximal runs of non-whitespace of s,
\* scanned from position i with the current run in word.
SplitFrom(s, i, word) ==
    IF i > Len(s)
    THEN IF word = <<>> THEN <<>> ELSE <<word>>
    ELSE IF s[i] \in Whitespace
         THEN IF word = <<>>
              THEN SplitFrom(s, i + 1, <<>>)
              ELSE <<word>> \o SplitFrom(s, i + 1, <<>>)
         ELSE SplitFrom(s, i + 1, Append(word, s[i]))

Split(s) == SplitFrom(s, 1, <<>>)

\* A truthiness test in place of "is not None": the empty string passes.
InvalidOption_truthy(v) == v # None /\ v # empty /\ v # yes

\* finalize_options: the test that rejects the option.
InvalidOption(v) == v # None /\ v # yes

\* Every option value sent through _call.
Interactive_always(v) == TRUE

\* configure: the test that selects the branch through _call.
Interactive(v) == v = None

\* Popen followed by a wait for the child before configure returns.
Waits_popen(stmt) == stmt \in {"call_wait", "clean_wait", "close"}

\* The statements at which the command blocks until the child it started
\* has exited: the two subprocess.call, and not the Popen of configure.
Waits(stmt) == stmt \in {"call_wait", "clean_wait"}

\* No status counted as a failure.
CallFails_never(c) == FALSE

\* finalize_options: the message of the ValueError it raises.
FinalizeMessage(v) == FinalizePrefix \o v

\* Only status 1 counted as a failure.
CallFails_one(c) == c = 1

\* Only a status above 1 counted as a failure.
CallFails_above(c) == c > 1

\* _call: the test on the status subprocess.call returned.
CallFails(c) == c # 0

\* The message without the command.
CallMessage_bare(command) == CallPrefix

\* _call: the message of the ValueError it raises.
CallMessage(command) == CallPrefix \o command

\* make clean checked like the commands of _call.
CleanFails_strict(c) == c # 0

\* clean: the status of make clean is assigned and never tested.
CleanFails(c) == FALSE

\* clean called after make.
RunBody_cleanLast == <<"autoconf", "configure", "make", "clean">>

\* run: the four methods in the order run calls them.
RunBody == <<"autoconf", "configure", "clean", "make">>

\* The statement run executes after method m returns.
After(m) ==
    LET i == CHOOSE k \in 1 .. Len(RunBody) : RunBody[k] = m
    IN  IF i < Len(RunBody) THEN RunBody[i + 1] ELSE "done"

NoError == [type |-> "", args |-> <<>>]
ValueError(msg) == [type |-> "ValueError", args |-> <<msg>>]
IOError(msg) == [type |-> "IOError", args |-> <<msg>>]

\* A child process as subprocess starts it.
Process(command, in, out) ==
    [argv |-> Split(command), alive |-> TRUE, returncode |-> 0,
     stdin |-> in, stdout |-> out]

(***************************************************************************)
(* State                                                                   *)
(***************************************************************************)
VARIABLES
    agree_cpc,   \* self.agree_cpc
    pc,          \* the statement the command is at
    caller,      \* the method of run that called _call
    commands,    \* _call's argument
    idx,         \* position of _call's for loop in commands
    code,        \* the local code of _call and of clean
    procs,       \* the child processes, in the order they were started
    f,           \* the temporary file of configure: "none", "open", "closed"
    written,     \* the chunks p.stdin.write accepted
    stdinOpen,   \* whether the write end of the child's stdin pipe is open
    error        \* the exception that ended the command, or NoError

vars == <<agree_cpc, pc, caller, commands, idx, code, procs, f, written,
          stdinOpen, error>>

Init ==
    /\ agree_cpc \in OptionValues
    /\ pc = "finalize_options"
    /\ caller = ""
    /\ commands = <<>>
    /\ idx = 1
    /\ code = 0
    /\ procs = <<>>
    /\ f = "none"
    /\ written = <<>>
    /\ stdinOpen = FALSE
    /\ error = NoError

(***************************************************************************)
(* Operations                                                              *)
(***************************************************************************)
finalize_options ==
    /\ pc = "finalize_options"
    /\ IF InvalidOption(agree_cpc)
       THEN /\ error' = ValueError(FinalizeMessage(agree_cpc))
            /\ pc' = "raised"
       ELSE /\ error' = error
            /\ pc' = RunBody[1]
    /\ UNCHANGED <<agree_cpc, caller, commands, idx, code, procs, f, written,
                   stdinOpen>>

\* The entry of _call(cmds) from method m.
EnterCall(m, cmds) ==
    /\ caller' = m
    /\ commands' = cmds
    /\ idx' = 1
    /\ pc' = "call"

autoconf ==
    /\ pc = "autoconf"
    /\ EnterCall("autoconf", <<AutoconfCommand>>)
    /\ UNCHANGED <<agree_cpc, code, procs, f, written, stdinOpen, error>>

\* _call: subprocess.call starts the child of the next command.
call_spawn ==
    /\ pc = "call"
    /\ idx <= Len(commands)
    /\ procs' = Append(procs, Process(commands[idx], "inherit", "inherit"))
    /\ pc' = "call_wait"
    /\ UNCHANGED <<agree_cpc, caller, commands, idx, code, f, written,
                   stdinOpen, error>>

\* _call: subprocess.call returns the status of the child once it exited.
call_wait ==
    /\ pc = "call_wait"
    /\ Waits(pc) => ~procs[Len(procs)].alive
    /\ code' = procs[Len(procs)].returncode
    /\ IF CallFails(code')
       THEN /\ error' = ValueError(CallMessage(commands[idx]))
            /\ pc' = "raised"
            /\ idx' = idx
       ELSE /\ error' = error
            /\ pc' = "call"
            /\ idx' = idx + 1
    /\ UNCHANGED <<agree_cpc, caller, commands, procs, f, written, stdinOpen>>

\* _call: the for loop is exhausted and _call returns to run.
call_return ==
    /\ pc = "call"
    /\ idx > Len(commands)
    /\ pc' = After(caller)
    /\ UNCHANGED <<agree_cpc, caller, commands, idx, code, procs, f, written,
                   stdinOpen, error>>

\* configure: the branch on agree_cpc; the else branch opens the temporary
\* file.
configure ==
    /\ pc = "configure"
    /\ IF Interactive(agree_cpc)
       THEN /\ EnterCall("configure", <<ConfigureCommand>>)
            /\ f' = f
       ELSE /\ f' = "open"
            /\ pc' = "Popen"
            /\ UNCHANGED <<caller, commands, idx>>
    /\ UNCHANGED <<agree_cpc, code, procs, written, stdinOpen, error>>

\* configure: subprocess.Popen starts the child and does not wait for it.
configure_Popen ==
    /\ pc = "Popen"
    /\ procs' = Append(procs, Process(ScriptedConfigureCommand, "pipe", "file"))
    /\ stdinOpen' = TRUE
    /\ idx' = 1
    /\ pc' = "write"
    /\ UNCHANGED <<agree_cpc, caller, commands, code, f, written, error>>

\* configure: p.stdin.write of the next answer. While the child lives the
\* pipe takes the bytes; once it has exited the write either raises (an
\* unbuffered pipe) or is taken by the stream's buffer.
configure_write ==
    /\ pc = "write"
    /\ \E ok \in BOOLEAN :
         /\ procs[Len(procs)].alive => ok
         /\ IF ok
            THEN /\ written' = Append(written, ScriptedAnswers[idx])
                 /\ idx' = idx + 1
                 /\ pc' = IF idx < Len(ScriptedAnswers) THEN "write" ELSE "close"
                 /\ error' = error
            ELSE /\ error' = IOError(BrokenPipe)
                 /\ pc' = "raised"
                 /\ UNCHANGED <<written, idx>>
    /\ UNCHANGED <<agree_cpc, caller, commands, code, procs, f, stdinOpen>>

\* configure: f.close() and the return. p goes out of scope without
\* p.stdin.close(): whether the pipe is closed is left to the finalizer.
configure_close ==
    /\ pc = "close"
    /\ Waits(pc) => ~procs[Len(procs)].alive
    /\ f' = "closed"
    /\ stdinOpen' \in BOOLEAN
    /\ pc' = After("configure")
    /\ UNCHANGED <<agree_cpc, caller, commands, idx, code, procs, written,
                   error>>

\* clean: subprocess.call starts make clean.
clean ==
    /\ pc = "clean"
    /\ procs' = Append(procs, Process(CleanCommand, "inherit", "inherit"))
    /\ pc' = "clean_wait"
    /\ UNCHANGED <<agree_cpc, caller, commands, idx, code, f, written,
                   stdinOpen, error>>

\* clean: subprocess.call returns the status, which is only assigned.
clean_wait ==
    /\ pc = "clean_wait"
    /\ Waits(pc) => ~procs[Len(procs)].alive
    /\ code' = procs[Len(procs)].returncode
    /\ IF CleanFails(code')
       THEN /\ error' = ValueError(CallMessage(CleanCommand))
            /\ pc' = "raised"
       ELSE /\ error' = error
            /\ pc' = After("clean")
    /\ UNCHANGED <<agree_cpc, caller, commands, idx, procs, f, written,
                   stdinOpen>>

make ==
    /\ pc = "make"
    /\ EnterCall("make", MakeCommands)
    /\ UNCHANGED <<agree_cpc, code, procs, f, written, stdinOpen, error>>

\* The environment: a running child exits with some status.
ChildExit(i, c) ==
    /\ procs[i].alive
    /\ procs' = [procs EXCEPT ![i].alive = FALSE, ![i].returncode = c]
    /\ UNCHANGED <<agree_cpc, pc, caller, commands, idx, code, f, written,
                   stdinOpen, error>>

Next ==
    \/ finalize_options
    \/ autoconf
    \/ call_spawn
    \/ call_wait
    \/ call_return
    \/ configure
    \/ configure_Popen
    \/ configure_write
    \/ configure_close
    \/ clean
    \/ clean_wait
    \/ make
    \/ \E i \in 1 .. Len(procs) : \E c \in ExitCodes : ChildExit(i, c)

Spec == Init /\ [][Next]_vars

\* The steps of the command itself.
Program ==
    \/ finalize_options
    \/ autoconf
    \/ call_spawn
    \/ call_wait
    \/ call_return
    \/ configure
    \/ configure_Popen
    \/ configure_write
    \/ configure_close
    \/ clean
    \/ clean_wait
    \/ make

\* A child started by subprocess.call exits.
CalledChildExit ==
    \E i \in 1 .. Len(procs) : \E c \in ExitCodes :
        procs[i].stdin = "inherit" /\ ChildExit(i, c)

\* The command keeps running, and every child started by subprocess.call
\* eventually exits; nothing is assumed of the child started by Popen.
FairSpec ==
    /\ Init
    /\ [][Next]_vars
    /\ WF_vars(Program)
    /\ WF_vars(CalledChildExit)

(***************************************************************************)
(* Vocabulary of the properties                                            *)
(***************************************************************************)
AutoconfArgv ==
    << <<"a","u","t","o","c","o","n","f">>,
       <<"-","o">>,
       <<"c","o","n","f","i","g","u","r","e">>,
       <<"a","c","-","t","o","o","l","s","/","c","o","n","f","i","g","u","r","e",".","a","c">> >>
ConfigureArgv ==
    << <<".","/","c","o","n","f","i","g","u","r","e">>,
       <<"-","-","p","r","e","f","i","x","=","$","P","W","D","/","b","i","n">>,
       <<"-","-","w","i","t","h","-","c","p","c","-","m","o","d","u","l","e","s">> >>
CleanArgv == << <<"m","a","k","e">>, <<"c","l","e","a","n">> >>
MakeArgv == << <<"m","a","k","e">> >>
MakeCheckArgv == << <<"m","a","k","e">>, <<"c","h","e","c","k">> >>
MakeInstallArgv == << <<"m","a","k","e">>, <<"i","n","s","t","a","l","l">> >>

\* The six command lines in the order of the specification.
ExpectedOrder ==
    <<AutoconfArgv, ConfigureArgv, CleanArgv, MakeArgv, MakeCheckArgv,
      MakeInstallArgv>>

\* The command strings of the three Build commands, by position in procs.
BuildCommandAt(i) ==
    IF i = 4 THEN MakeCommand
    ELSE IF i = 5 THEN MakeCheckCommand ELSE MakeInstallCommand

\* The command lines started so far, in order.
Started == [i \in 1 .. Len(procs) |-> procs[i].argv]

IsPrefix(s, t) == Len(s) <= Len(t) /\ SubSeq(t, 1, Len(s)) = s

Exited(i) == i <= Len(procs) /\ ~procs[i].alive
ExitedNonZero(i) == Exited(i) /\ procs[i].returncode # 0

\* The option passed finalize_options: Run is entered.
ValidOption == agree_cpc \in {None, yes}

Terminated == pc \in {"done", "raised"}
Succeeded == pc = "done" /\ error = NoError
Failed == pc = "raised" /\ error # NoError

\* The error is the one _call raises for command.
PhaseFailedAt(command) ==
    /\ Failed
    /\ error.type = "ValueError"
    /\ error.args = <<CallPrefix \o command>>

\* A write of a scripted answer raised.
WriteFailed == Failed /\ error.type = "IOError"

(***************************************************************************)
(* Properties                                                              *)
(***************************************************************************)

\* C1: for every option value that is set and is not exactly "yes"
\* (the empty string and "no" included), finalize_options fails with a
\* ValueError whose message ends with the offending value, and no external
\* process is ever started in that run.
C1_InvalidOptionRejected ==
    (agree_cpc # None /\ agree_cpc # yes) =>
        /\ procs = <<>>
        /\ pc \in {"finalize_options", "raised"}
        /\ pc = "raised" =>
             /\ error.type = "ValueError"
             /\ error.args = <<FinalizePrefix \o agree_cpc>>

\* C1 witness: the empty string was given and finalize_options has raised.
C1_Witness ==
    /\ agree_cpc = empty
    /\ pc = "raised"
    /\ error.type = "ValueError"
    /\ procs = <<>>

C3_AutoconfFailureStopsRun ==
    (ValidOption /\ ExitedNonZero(1)) =>
        /\ Len(procs) = 1
        /\ pc \in {"call_wait", "raised"}
        /\ pc = "raised" => PhaseFailedAt(AutoconfCommand)

\* C3 witness: with the option "yes", autoconf exited with status 2 and
\* the run has failed.
C3_Witness ==
    /\ agree_cpc = yes
    /\ Exited(1) /\ procs[1].returncode = 2
    /\ procs[1].argv = AutoconfArgv
    /\ pc = "raised"

\* C4: with the option unset, once configure has exited with a non-zero
\* status, make clean and the Build commands are never started, and when
\* the run has ended it has failed with the ValueError of _call that names
\* the configure command.
C4_StrictConfigureFailureStopsRun ==
    (agree_cpc = None /\ ExitedNonZero(2)) =>
        /\ Len(procs) = 2
        /\ procs[2].argv = ConfigureArgv
        /\ pc \in {"call_wait", "raised"}
        /\ pc = "raised" => PhaseFailedAt(ConfigureCommand)

\* C4 witness: with the option unset, configure exited with status 1 after
\* autoconf succeeded, and the run has failed.
C4_Witness ==
    /\ agree_cpc = None
    /\ Len(procs) = 2
    /\ procs[2].argv = ConfigureArgv
    /\ Exited(2) /\ procs[2].returncode = 1
    /\ pc = "raised"

\* C5: once make clean has exited and clean has returned, whatever the
\* status of make clean, the run goes on to the Build phase, make is the
\* next process started, and the result of a run that has ended is decided
\* by the Build commands alone: failure exactly when one of them exited
\* with a non-zero status.
C5_CleanNeverFatal ==
    (Len(procs) >= 3 /\ Exited(3) /\ pc # "clean_wait") =>
        /\ procs[3].argv = CleanArgv
        /\ pc \in {"make", "call", "call_wait", "done", "raised"}
        /\ Len(procs) >= 4 => procs[4].argv = MakeArgv
        /\ pc = "raised" => Len(procs) >= 4
        /\ Terminated =>
             (Failed <=> \E i \in 4 .. Len(procs) : ExitedNonZero(i))

\* C5 witness: make clean exited with a non-zero status and the run went
\* on through the Build phase to success.
C5_Witness ==
    /\ Len(procs) = 6
    /\ procs[3].argv = CleanArgv
    /\ ExitedNonZero(3)
    /\ Succeeded

\* C6: the Build commands are started in the order make, make check,
\* make install, each only after the previous one exited with status 0;
\* once one of them has exited with a non-zero status no later command is
\* started, and the run that has ended has failed with the ValueError of
\* _call naming exactly that command.
C6_BuildStopsAtFirstFailure ==
    \A i \in 4 .. Len(procs) :
        /\ procs[i].argv = ExpectedOrder[i]
        /\ i > 4 => (Exited(i - 1) /\ procs[i - 1].returncode = 0)
        /\ ExitedNonZero(i) =>
             /\ Len(procs) = i
             /\ pc \in {"call_wait", "raised"}
             /\ pc = "raised" => PhaseFailedAt(BuildCommandAt(i))

\* C6 witness: make succeeded, make check exited with a non-zero status and
\* the run has failed without starting make install.
C6_Witness ==
    /\ Len(procs) = 5
    /\ procs[5].argv = MakeCheckArgv
    /\ ExitedNonZero(5)
    /\ pc = "raised"

\* Process i is one whose non-zero status _call turns into a failure:
\* autoconf, configure run through _call, or a Build command.
Fatal(i) ==
    \/ procs[i].argv \in {AutoconfArgv, MakeArgv, MakeCheckArgv, MakeInstallArgv}
    \/ procs[i].argv = ConfigureArgv /\ agree_cpc = None

FatalExit == \E i \in 1 .. Len(procs) : Fatal(i) /\ ExitedNonZero(i)

C8_OneProcessAtATime ==
    /\ \A i \in 1 .. Len(procs) - 1 : ~procs[i].alive
    /\ Cardinality({i \in 1 .. Len(procs) : procs[i].alive}) <= 1

\* C9: on the scripted path the writes to the child's input are the two
\* lines "yes\n" and "\n" in that order and nothing else, and when
\* configure has returned both are written and the input stream is closed.
C9_TwoLinesThenClose ==
    agree_cpc = yes =>
        /\ IsPrefix(written, << <<"y","e","s","\n">>, <<"\n">> >>)
        /\ f = "closed" =>
             /\ written = << <<"y","e","s","\n">>, <<"\n">> >>
             /\ ~stdinOpen

DecimalDigits == <<"0","1","2","3","4","5","6","7","8","9">>

RECURSIVE Decimal(_)
\* The decimal rendering of a natural number.
Decimal(n) ==
    IF n < 10 THEN <<DecimalDigits[n + 1]>>
    ELSE Decimal(n \div 10) \o <<DecimalDigits[(n % 10) + 1]>>

IsInfix(s, t) ==
    \E k \in 0 .. Len(t) - Len(s) : SubSeq(t, k + 1, k + Len(s)) = s

\* C10: every error _call raises carries the command that failed and the
\* non-zero exit status the command returned.
C10_CarriesCommandAndStatus ==
    (Failed /\ FatalExit /\ ~WriteFailed) =>
        \E a \in 1 .. Len(error.args) :
            /\ IsInfix(commands[idx], error.args[a])
            /\ IsInfix(Decimal(procs[Len(procs)].returncode), error.args[a])

\* C11: on the scripted path the status of the configure child never
\* produces the error of _call for the configure command; once both
\* answers are written and configure has returned, the run goes on to
\* make clean and then to make, and it can only fail in the Build phase.
C11_ScriptedStatusIgnored ==
    agree_cpc = yes =>
        /\ ~PhaseFailedAt(ConfigureCommand)
        /\ ~PhaseFailedAt(ScriptedConfigureCommand)
        /\ (Len(written) = 2 /\ pc # "close") =>
             /\ pc \in {"clean", "clean_wait", "make", "call", "call_wait",
                        "done", "raised"}
             /\ pc # "clean" => (Len(procs) >= 3 /\ procs[3].argv = CleanArgv)
             /\ Len(procs) >= 4 => procs[4].argv = MakeArgv
             /\ Failed => \E i \in 4 .. Len(procs) : ExitedNonZero(i)

\* C11 witness: the configure child took both answers and exited with
\* status 2, and the run is waiting for make.
C11_Witness ==
    /\ agree_cpc = yes
    /\ Len(written) = 2
    /\ Exited(2) /\ procs[2].returncode = 2
    /\ Len(procs) = 4 /\ procs[4].argv = MakeArgv
    /\ pc = "call_wait"

\* C12: the temporary file of the scripted configure is open only while
\* configure is between opening it and f.close(); on every path by which
\* configure is left, a failed write of an answer included, it is closed.
C12_SinkClosedOnEveryExit ==
    f = "open" => pc \in {"Popen", "write", "close"}

\* C13: no command line is started twice in a run, and a fatal command
\* that has exited with a non-zero status is the last process of the
\* run: none is started after it.
C13_NoRetryNoRecovery ==
    /\ \A i, j \in 1 .. Len(procs) : i # j => procs[i].argv # procs[j].argv
    /\ \A i \in 1 .. Len(procs) :
         (Fatal(i) /\ ExitedNonZero(i)) =>
             /\ i = Len(procs)
             /\ pc \in {"call_wait", "raised"}

\* C13 witness: with the option unset make exited with a non-zero status
\* and the run has failed with four processes started.
C13_Witness ==
    /\ agree_cpc = None
    /\ Len(procs) = 4
    /\ procs[4].argv = MakeArgv
    /\ ExitedNonZero(4)
    /\ Failed

\* The position in the order of the first command other than make clean
\* that exited with a non-zero status, or 0 when there is none.
FirstFailure ==
    LET bad == {i \in 1 .. Len(procs) : i # 3 /\ ExitedNonZero(i)}
    IN  IF bad = {} THEN 0
        ELSE CHOOSE i \in bad : \A j \in bad : i <= j

\* What a run that has ended has started, and whether it failed, as a
\* function of the exit statuses alone.
DeterminedByStatuses ==
    /\ Started = SubSeq(ExpectedOrder, 1,
                        IF FirstFailure = 0 THEN Len(ExpectedOrder)
                        ELSE FirstFailure)
    /\ Failed <=> FirstFailure # 0
    /\ ~Failed => Succeeded

C15_RunTerminates == <>Terminated

\* C15 witness: a scripted run has ended in success while its configure
\* child is still running.
C15_Witness ==
    /\ agree_cpc = yes
    /\ Succeeded
    /\ Len(procs) = 6
    /\ procs[2].alive

====
